---- MODULE Spec2Model ----
(***************************************************************************)
(* Command dispatch of kook-ts-cordis: the Commander middleware            *)
(* (services/commander/commander.ts) and CommandInstance                   *)
(* (services/commander/command.ts, held in src/src/bot.ts lines 75-191).   *)
(*                                                                         *)
(* A JavaScript string is a sequence of one-character strings, so that     *)
(* indexOf, substring, startsWith, the tokenizer and the signature regexes *)
(* are computed character by character as the code computes them.          *)
(***************************************************************************)
EXTENDS Naturals, Integers, Sequences, FiniteSets, TLC

\* JavaScript's undefined, false and true where a value may also be a string:
\* one-element sequences that no string (a sequence of single characters) equals.
Undefined == <<"undefined">>
False == <<"false">>
True == <<"true">>

\* typeof v == 'string'
IsString(v) == v \notin {Undefined, False, True}

(***************************************************************************)
(* String primitives of the JavaScript runtime used by the code            *)
(***************************************************************************)

Min(a, b) == IF a <= b THEN a ELSE b
Max(a, b) == IF a >= b THEN a ELSE b

\* s.indexOf(' '): the 0-based index of the first occurrence of c, or -1.
IndexOf(s, c) ==
  IF \E i \in 1..Len(s) : s[i] = c
    THEN (CHOOSE i \in 1..Len(s) : s[i] = c /\ \A j \in 1..(i - 1) : s[j] # c) - 1
    ELSE -1

\* s.substring(a, b): both ends clamped to [0, length], swapped when a > b.
Substring(s, a, b) ==
  LET ca == Min(Max(a, 0), Len(s))
      cb == Min(Max(b, 0), Len(s))
      lo == Min(ca, cb)
      hi == Max(ca, cb)
  IN  [i \in 1..(hi - lo) |-> s[lo + i]]

\* s.substring(a): to the end of the string.
SubstringFrom(s, a) == Substring(s, a, Len(s))

\* A startsWith that compares the lengths only.
StartsWithLength(s, p) == Len(p) <= Len(s)

\* s.startsWith(p)
StartsWith(s, p) == Len(p) <= Len(s) /\ \A i \in 1..Len(p) : s[i] = p[i]

\* s.slice(1, -1): the string without its first and last character.
Slice1(s) == [i \in 1..(Len(s) - 2) |-> s[i + 1]]

\* others.match(/<[^>]+>/g) || [] with open = "<", close = ">", and
\* others.match(/\[[^\]]+\]/g) || [] with open = "[", close = "]":
\* the leftmost non-overlapping matches, scanning from 1-based position i.
\* A match starts at an open character followed by at least one character
\* other than close and then by close.
RECURSIVE MatchAll(_, _, _, _)
MatchAll(s, open, close, i) ==
  IF i > Len(s) THEN <<>>
  ELSE IF s[i] = open /\ i + 2 <= Len(s) /\ s[i + 1] # close
            /\ \E j \in (i + 2)..Len(s) : s[j] = close
    THEN LET j == CHOOSE k \in (i + 2)..Len(s) :
                    s[k] = close /\ \A l \in (i + 2)..(k - 1) : s[l] # close
         IN  <<[l \in 1..(j - i + 1) |-> s[i + l - 1]]>>
               \o MatchAll(s, open, close, j + 1)
    ELSE MatchAll(s, open, close, i + 1)

(***************************************************************************)
(* parseArgsStringToArgv (bot.ts 160-191)                                  *)
(***************************************************************************)

\* One iteration of the for loop over value[i]; st is the loop's state
\* [args, inQuotes, escape, arg].
TokStep(st, current) ==
  IF st.escape
    THEN [st EXCEPT !.arg = Append(st.arg, current), !.escape = FALSE]
  ELSE IF current = "\\"
    THEN [st EXCEPT !.escape = TRUE]
  ELSE IF current = "\""
    THEN [st EXCEPT !.inQuotes = ~st.inQuotes]
  ELSE IF current = " " /\ ~st.inQuotes
    THEN IF Len(st.arg) > 0
           THEN [st EXCEPT !.args = Append(st.args, st.arg), !.arg = <<>>]
           ELSE st
  ELSE [st EXCEPT !.arg = Append(st.arg, current)]

RECURSIVE TokLoop(_, _, _)
TokLoop(value, i, st) ==
  IF i > Len(value) THEN st ELSE TokLoop(value, i + 1, TokStep(st, value[i]))

parseArgsStringToArgv(value) ==
  LET st == TokLoop(value, 1,
                    [args |-> <<>>, inQuotes |-> FALSE, escape |-> FALSE, arg |-> <<>>])
  IN  IF Len(st.arg) > 0 THEN Append(st.args, st.arg) ELSE st.args

(***************************************************************************)
(* typeFlag(this.options, argv) and remove(argv._, this.name) (bot.ts 126, *)
(* 128). Every command of the model is registered with the empty flag      *)
(* schema {}, for which type-flag keeps as positionals (argv._) the        *)
(* arguments that are not flags, and everything after a "--" argument.     *)
(***************************************************************************)

\* \w of type-flag's flag pattern /^-{1,2}\w/: [A-Za-z0-9_]
WordChars ==
  {"a", "b", "c", "d", "e", "f", "g", "h", "i", "j", "k", "l", "m", "n", "o",
   "p", "q", "r", "s", "t", "u", "v", "w", "x", "y", "z",
   "A", "B", "C", "D", "E", "F", "G", "H", "I", "J", "K", "L", "M", "N", "O",
   "P", "Q", "R", "S", "T", "U", "V", "W", "X", "Y", "Z",
   "0", "1", "2", "3", "4", "5", "6", "7", "8", "9", "_"}

IsFlag(a) ==
  \/ Len(a) >= 2 /\ a[1] = "-" /\ a[2] \in WordChars
  \/ Len(a) >= 3 /\ a[1] = "-" /\ a[2] = "-" /\ a[3] \in WordChars

RECURSIVE typeFlag(_, _)
typeFlag(argv, i) ==
  IF i > Len(argv) THEN <<>>
  ELSE IF argv[i] = <<"-", "-">> THEN SubSeq(argv, i + 1, Len(argv))
  ELSE IF IsFlag(argv[i]) THEN typeFlag(argv, i + 1)
  ELSE <<argv[i]>> \o typeFlag(argv, i + 1)

\* A remove that drops every element equal to item.
removeAll(list, item) == SelectSeq(list, LAMBDA x : x # item)

\* cosmokit's remove(list, item): splices out the first element equal to item.
remove(list, item) ==
  IF \E i \in 1..Len(list) : list[i] = item
    THEN LET i == CHOOSE k \in 1..Len(list) :
                    list[k] = item /\ \A j \in 1..(k - 1) : list[j] # item
         IN  SubSeq(list, 1, i - 1) \o SubSeq(list, i + 1, Len(list))
    ELSE list

(***************************************************************************)
(* CommandInstance (bot.ts 101-158)                                        *)
(***************************************************************************)

\* constructor(name, desc, options) (bot.ts 110-119). commandFunction is set
\* by action() only. The class declares and assigns no aliases property.
\* declared is the constructor's argument as given: the code does not keep
\* it, the properties below refer to it.
CommandInstance(name, desc) ==
  LET index == IndexOf(name, " ")
      others == SubstringFrom(name, index)
  IN  [declared |-> name,
       name |-> Substring(name, 0, index),
       description |-> desc,
       requiredMatches |-> MatchAll(others, "<", ">", 1),
       optionalMatches |-> MatchAll(others, "[", "]", 1),
       commandFunction |-> FALSE]

\* list[i] of a JavaScript array, i from 0: undefined outside the array.
At(list, i) == IF i + 1 \in DOMAIN list THEN list[i + 1] ELSE Undefined

\* The property name '__proto__'.
ProtoName == <<"_", "_", "p", "r", "o", "t", "o", "_", "_">>

\* params[paramName] = value on the object params (a function from its own
\* property names), params being the object literal {} of bot.ts 129 and
\* value a string or undefined. For the name '__proto__' the assignment goes
\* to the prototype setter, which ignores a value that is no object: no
\* property is added.
Assign(params, paramName, value) ==
  IF paramName = ProtoName THEN params
  ELSE [n \in DOMAIN params \cup {paramName} |->
          IF n = paramName THEN value ELSE params[n]]

\* The loop of bot.ts 138-141, from index i (0-based as in the code).
RECURSIVE BindRequired(_, _, _, _)
BindRequired(cmd, pos, params, i) ==
  IF i < Len(cmd.requiredMatches)
    THEN BindRequired(cmd, pos,
           Assign(params, Slice1(cmd.requiredMatches[i + 1]), At(pos, i)), i + 1)
    ELSE params

\* The loop of bot.ts 144-151.
RECURSIVE BindOptional(_, _, _, _)
BindOptional(cmd, pos, params, i) ==
  IF i < Len(cmd.optionalMatches) /\ i + Len(cmd.requiredMatches) < Len(pos)
    THEN BindOptional(cmd, pos,
           Assign(params, Slice1(cmd.optionalMatches[i + 1]),
                  At(pos, i + Len(cmd.requiredMatches))), i + 1)
    ELSE params

\* argv._ after bot.ts 126-128.
Positionals(cmd, possible) ==
  remove(typeFlag(parseArgsStringToArgv(possible), 1), cmd.name)

\* The comparison off by one: one missing positional goes unnoticed.
ArityShortLax(cmd, pos) == Len(cmd.requiredMatches) > Len(pos) + 1

\* The required-parameter comparison of bot.ts 132.
ArityShort(cmd, pos) == Len(cmd.requiredMatches) > Len(pos)

\* The values of the properties of the object handed to commandFunction,
\* each with its kind in front: the array of positionals, a string,
\* undefined, and the (empty) objects argv.flags and argv.unknownFlags.
ArrayValue(list) == <<<<"array">>>> \o list
StringValue(v) == IF v = Undefined THEN <<<<"undefined">>>> ELSE <<<<"string">>, v>>
ObjectValue == <<<<"object">>>>

\* The property names of type-flag's result: '_', 'flags', 'unknownFlags'.
PositionalsKey == <<"_">>
FlagsKey == <<"f", "l", "a", "g", "s">>
UnknownFlagsKey == <<"u", "n", "k", "n", "o", "w", "n", "F", "l", "a", "g", "s">>

\* params after the loops of bot.ts 138-151.
Params(cmd, pos) == BindOptional(cmd, pos, BindRequired(cmd, pos, <<>>, 0), 0)

\* The object of bot.ts 153 handed to commandFunction: {...argv, ...params},
\* one object in which a parameter named as a property of argv replaces it.
Bind(cmd, pos) ==
  LET params == Params(cmd, pos)
      argv == [n \in {PositionalsKey, FlagsKey, UnknownFlagsKey} |->
                 IF n = PositionalsKey THEN ArrayValue(pos) ELSE ObjectValue]
  IN  [n \in DOMAIN argv \cup DOMAIN params |->
         IF n \in DOMAIN params THEN StringValue(params[n]) ELSE argv[n]]

(***************************************************************************)
(* Inputs of the model                                                     *)
(***************************************************************************)

\* Most messages received, and most commands registered, in one behaviour.
MaxMsgs == 1
MaxCmds == 2

Msgs == 1..MaxMsgs

\* ctx.scope.config.commandPrefix (commander.ts 53)
prefix == <<"!">>

\* The contexts (scopes) commands are registered under, and each one's
\* context.filter(session): "all" accepts every session, "ch1" the sessions
\* of channel "ch1".
Contexts == {"all", "ch1"}
Channels == {"ch1", "ch2"}
filter(context, sess) == context = "all" \/ sess.channelId = "ch1"

\* Signatures handed to ctx.command(): "g <n>", "p <n>".
Signatures ==
  { <<"g", " ", "<", "n", ">">>,
    <<"p", " ", "<", "n", ">">> }

\* session.data.content of the inbound messages: "g x", "!g x", "!q".
Contents ==
  { <<"g", " ", "x">>,
    <<"!", "g", " ", "x">>,
    <<"!", "q">> }

\* What the listeners of 'command/before-parse' make ctx.bail resolve to:
\* nothing, false or true; and, where the argument text is what matters,
\* nothing or the replacement input "g y".
BeforeParseResponses == {Undefined, False, True}
BeforeParseOverrides == {Undefined, <<"g", " ", "y">>}

\* What the listeners of 'command/before-execute' make ctx.serial resolve to.
BeforeExecuteResults == {Undefined, <<>>, <<"n", "o">>}

\* What a commandFunction does: return nothing, return '', return "ok", throw.
Throws == <<"throw">>
HandlerOutcomes == {Undefined, <<>>, <<"o", "k">>, Throws}

(***************************************************************************)
(* State                                                                   *)
(***************************************************************************)

VARIABLES
  instances,   \* every CommandInstance constructed, by identity (its index)
  _commands,   \* Commander._commands: the Map in insertion order, a sequence
               \* of [context, list], list a sequence of instance identities
  disposed,    \* the contexts whose runtime has run its disposables
  pc,          \* per message: where its processing stands
  session,     \* per message: the session handed to the middleware
  frame,       \* per message: the closure variables input and obj, set when
               \* the middleware goes on after ctx.bail (obj 0: none)
  trace,       \* per message: the calls made on the collaborators, in order:
               \* next, ctx.bail/serial/parallel, bot.sendMessage,
               \* commandFunction, logger.error, and how the promises ended
  unawaited,   \* per message: the promise of the bot.sendMessage call whose
               \* result the code drops (bot.ts 133, commander.ts 97, 120):
               \* "pending" from the call until the promise settles,
               \* "rejected" once it ended as a rejection, which no handler
               \* is attached to, "none" otherwise
  tok          \* a call of parseArgsStringToArgv on its own: its argument,
               \* the array it returned, and whether it has returned

vars == <<instances, _commands, disposed, pc, session, frame, trace, unawaited, tok>>

NoFrame == [input |-> <<>>, obj |-> 0]
NoCall == [value |-> <<>>, args |-> <<>>, returned |-> FALSE]

Init ==
  /\ instances = <<>>
  /\ _commands = <<>>
  /\ disposed = {}
  /\ pc = [m \in Msgs |-> "Idle"]
  /\ session = [m \in Msgs |-> [content |-> <<>>, channelId |-> "ch1"]]
  /\ frame = [m \in Msgs |-> NoFrame]
  /\ trace = [m \in Msgs |-> <<>>]
  /\ unawaited = [m \in Msgs |-> "none"]
  /\ tok = NoCall

(***************************************************************************)
(* Commander.command and CommandInstance.action                            *)
(***************************************************************************)

\* The position of context among the keys of _commands, 0 when it is no key.
KeyIndex(map, context) ==
  IF \E k \in 1..Len(map) : map[k].context = context
    THEN CHOOSE k \in 1..Len(map) : map[k].context = context
    ELSE 0

\* this._commands after commander.ts 209-213, id the new instance's identity.
Register(map, context, id) ==
  LET k == KeyIndex(map, context)
  IN  IF k # 0
        THEN [map EXCEPT ![k].list = Append(@, id)]
        ELSE Append(map, [context |-> context, list |-> <<id>>])

\* this._commands.delete(context) (commander.ts 216)
Delete(map, context) == SelectSeq(map, LAMBDA e : e.context # context)

\* instance.action(callback) (bot.ts 121-123) on the instance obj.
action(obj) == [obj EXCEPT !.commandFunction = TRUE]

\* instance.action(callback) called on the instance id some time after its
\* registration (bot.ts 121-123).
actionCalled(id) ==
  /\ id \in 1..Len(instances)
  /\ ~instances[id].commandFunction
  /\ instances' = [instances EXCEPT ![id] = action(@)]
  /\ UNCHANGED <<_commands, disposed, pc, session, frame, trace, unawaited, tok>>

\* ctx.command(commandName, '', {}) called through context (commander.ts
\* 201-218), and, when callback is TRUE, .action(callback) called on the
\* instance it returns in the same expression. The context may have been
\* disposed already: the disposable pushed at line 216 then never runs.
command(context, commandName, callback) ==
  /\ LET new == CommandInstance(commandName, <<>>)
     IN  instances' = Append(instances, IF callback THEN action(new) ELSE new)
  /\ _commands' = Register(_commands, context, Len(instances) + 1)
  /\ UNCHANGED <<disposed, pc, session, frame, trace, unawaited, tok>>

\* A disposal that also ends the dispatches waiting on 'command/before-execute'
\* for a command it removes.
disposeCancelling(context) ==
  /\ context \notin disposed
  /\ disposed' = disposed \cup {context}
  /\ _commands' = Delete(_commands, context)
  /\ pc' = [m \in DOMAIN pc |->
             IF /\ pc[m] = "BeforeExecute"
                /\ \E k \in 1..Len(_commands) :
                     /\ _commands[k].context = context
                     /\ \E j \in 1..Len(_commands[k].list) :
                          _commands[k].list[j] = frame[m].obj
               THEN "Done" ELSE pc[m]]
  /\ UNCHANGED <<instances, session, frame, trace, unawaited, tok>>

\* The context's runtime is disposed: each disposable pushed by command()
\* deletes the context's key (commander.ts 216).
dispose(context) ==
  /\ context \notin disposed
  /\ disposed' = disposed \cup {context}
  /\ _commands' = Delete(_commands, context)
  /\ UNCHANGED <<instances, pc, session, frame, trace, unawaited, tok>>

(***************************************************************************)
(* Commander.setupCommandParser (commander.ts 61-142) and                  *)
(* CommandInstance.execute (bot.ts 125-157), one action per stretch of     *)
(* code between two awaits                                                 *)
(***************************************************************************)

\* The literal replies of bot.ts 133 and commander.ts 120, kept apart from
\* every string of characters.
MissingParameter == <<"bot.ts:133">>
NoMatchingCommand == <<"commander.ts:120">>

\* A test that takes every string for true, the empty one too.
TruthyAlsoEmpty(v) == v = True \/ IsString(v)

\* if (v) of JavaScript, for undefined, false, true and strings.
Truthy(v) == v = True \/ (IsString(v) /\ v # <<>>)

\* The events a message's trace records.
EvNext == [ev |-> "next"]
EvBail(input) == [ev |-> "bail", input |-> input]
EvSerial(id) == [ev |-> "serial", obj |-> id]
EvParallel(id) == [ev |-> "parallel", obj |-> id]
EvCall(id, argv) == [ev |-> "commandFunction", obj |-> id, argv |-> argv]
EvLog == [ev |-> "logger.error"]
EvTypeError == [ev |-> "TypeError"]
\* bot.sendMessage(channelId, content, {quote, type}); quote 0 and card FALSE
\* when the option is not given.
EvSend(channelId, content, quote, card) ==
  [ev |-> "sendMessage", channelId |-> channelId, content |-> content,
   quote |-> quote, card |-> card]

\* commander.ts 72-80: the head and the argument text of input.
commandInputMain(input) ==
  LET index == IndexOf(input, " ")
  IN  IF index # -1 THEN Substring(input, 0, index) ELSE input

args(input) ==
  LET index == IndexOf(input, " ")
  IN  IF index # -1 THEN SubstringFrom(input, index + 1) ELSE <<>>

\* commander.ts 83-89: the lists of the contexts whose filter accepts the
\* session, concatenated in the Map's order, from entry k on.
RECURSIVE meetCommands(_, _, _)
meetCommands(map, sess, k) ==
  IF k > Len(map) THEN <<>>
  ELSE (IF filter(map[k].context, sess) THEN map[k].list ELSE <<>>)
         \o meetCommands(map, sess, k + 1)

\* commander.ts 91-113, the loop from the i-th visible command on. The test of
\* line 94 is head === obj.name || obj.aliases.includes(head): no instance
\* has an aliases property (bot.ts 101-119), so for an instance whose name
\* differs the second operand throws a TypeError, which rejects the
\* middleware's promise. commandArray therefore stays empty.
MatchLoop(objs, meet, head) ==
  IF Len(meet) = 0 THEN [kind |-> "none", obj |-> 0]
  ELSE IF head = objs[meet[1]].name THEN [kind |-> "match", obj |-> meet[1]]
  ELSE [kind |-> "throw", obj |-> 0]

\* commander.ts 116: search() over the empty commandArray finds nothing.
search(head, commandArray) == <<>>

\* The middleware up to its first await: the prefix test of line 62 and the
\* call of ctx.bail of line 65.
setupCommandParser(m, content, channelId) ==
  /\ pc[m] = "Idle"
  /\ IF m = 1 THEN TRUE ELSE pc[m - 1] # "Idle"
  /\ session' = [session EXCEPT ![m] = [content |-> content, channelId |-> channelId]]
  /\ IF ~StartsWith(content, prefix)
       THEN /\ trace' = [trace EXCEPT ![m] = Append(@, EvNext)]
            /\ pc' = [pc EXCEPT ![m] = "Done"]
       ELSE /\ trace' = [trace EXCEPT ![m] =
                           Append(@, EvBail(SubstringFrom(content, Len(prefix))))]
            /\ pc' = [pc EXCEPT ![m] = "BeforeParse"]
  /\ UNCHANGED <<instances, _commands, disposed, frame, unawaited, tok>>

\* commander.ts 67-70: the input the parse goes on with, and whether the
\* response cancels it.
Overridden(given, response) ==
  IF response # Undefined /\ IsString(response) THEN response ELSE given

\* The cancel test without its negation: cancels on true, not on false.
CancelledWhenTruthy(response) ==
  response # Undefined /\ ~IsString(response) /\ Truthy(response)

Cancelled(response) ==
  response # Undefined /\ ~IsString(response) /\ ~Truthy(response)

\* The test of line 96 as a truthiness test: '' no longer replaces.
VetoesWhenTruthy(result) == Truthy(result)

\* commander.ts 96: whether the result of 'command/before-execute' replaces
\* the execution.
Vetoes(result) == IsString(result)

\* The middleware from the resolution of ctx.bail (line 65) to its return:
\* lines 67-142.
BeforeParseResolved(m, response) ==
  /\ pc[m] = "BeforeParse"
  /\ LET given == SubstringFrom(session[m].content, Len(prefix))
         input == Overridden(given, response)
         cancelled == Cancelled(response)
         head == commandInputMain(input)
         meet == meetCommands(_commands, session[m], 1)
         found == MatchLoop(instances, meet, head)
         result == search(head, <<>>)
     IN  IF cancelled
           THEN /\ pc' = [pc EXCEPT ![m] = "Done"]
                /\ UNCHANGED <<frame, trace, unawaited>>
         ELSE IF found.kind = "match"
           THEN /\ trace' = [trace EXCEPT ![m] = Append(@, EvSerial(found.obj))]
                /\ frame' = [frame EXCEPT ![m] = [input |-> input, obj |-> found.obj]]
                /\ pc' = [pc EXCEPT ![m] = "BeforeExecute"]
                /\ UNCHANGED unawaited
         ELSE IF found.kind = "throw"
           THEN /\ trace' = [trace EXCEPT ![m] = Append(@, EvTypeError)]
                /\ pc' = [pc EXCEPT ![m] = "Done"]
                /\ frame' = [frame EXCEPT ![m] = [input |-> input, obj |-> 0]]
                /\ UNCHANGED unawaited
         ELSE /\ Len(result) = 0
              /\ trace' = [trace EXCEPT ![m] =
                   Append(@, EvSend(session[m].channelId, NoMatchingCommand, m, FALSE))]
              /\ unawaited' = [unawaited EXCEPT ![m] = "pending"]
              /\ pc' = [pc EXCEPT ![m] = "Done"]
              /\ frame' = [frame EXCEPT ![m] = [input |-> input, obj |-> 0]]
  /\ UNCHANGED <<instances, _commands, disposed, session, tok>>

\* An execute() that resolves to true on every path.
ExecuteResultTrue == True

\* What execute()'s promise resolves to: the async function returns no value
\* on either path (bot.ts 134, 157).
ExecuteResult == Undefined

\* The callback of lines 101-103, run when execute()'s promise resolves to r.
ThenExecuted(t, id, r) == IF Truthy(r) THEN Append(t, EvParallel(id)) ELSE t

\* The callback of lines 95-107, run when ctx.serial resolves to result, with
\* execute() (bot.ts 126-155) up to its await of commandFunction.
BeforeExecuteResolved(m, result) ==
  /\ pc[m] = "BeforeExecute"
  /\ LET id == frame[m].obj
         obj == instances[id]
         pos == Positionals(obj, args(frame[m].input))
     IN  IF Vetoes(result)
           THEN /\ trace' = [trace EXCEPT ![m] =
                     Append(@, EvSend(session[m].channelId, result, m, FALSE))]
                /\ unawaited' = [unawaited EXCEPT ![m] = "pending"]
                /\ pc' = [pc EXCEPT ![m] = "Done"]
         ELSE IF ArityShort(obj, pos)
           THEN /\ trace' = [trace EXCEPT ![m] =
                     ThenExecuted(
                       Append(@, EvSend(session[m].channelId, MissingParameter, m, FALSE)),
                       id, ExecuteResult)]
                /\ unawaited' = [unawaited EXCEPT ![m] = "pending"]
                /\ pc' = [pc EXCEPT ![m] = "Done"]
         ELSE IF ~obj.commandFunction
           THEN \* this.commandFunction is undefined: the call throws and
                \* execute()'s promise is rejected; the catch of line 105
                \* runs in a later turn
                /\ pc' = [pc EXCEPT ![m] = "Rejected"]
                /\ UNCHANGED <<trace, unawaited>>
         ELSE /\ trace' = [trace EXCEPT ![m] = Append(@, EvCall(id, Bind(obj, pos)))]
              /\ pc' = [pc EXCEPT ![m] = "Handler"]
              /\ UNCHANGED unawaited
  /\ UNCHANGED <<instances, _commands, disposed, session, frame, tok>>

\* execute() from the resolution of commandFunction (bot.ts 155) to the await
\* of bot.sendMessage (156) or to its end; a rejection rejects execute()'s
\* promise.
HandlerResolved(m, outcome) ==
  /\ pc[m] = "Handler"
  /\ IF outcome = Throws
       THEN /\ pc' = [pc EXCEPT ![m] = "Rejected"]
            /\ UNCHANGED trace
     ELSE IF Truthy(outcome)
       THEN /\ trace' = [trace EXCEPT ![m] =
                 Append(@, EvSend(session[m].channelId, outcome, 0, FALSE))]
            /\ pc' = [pc EXCEPT ![m] = "Send"]
     ELSE /\ trace' = [trace EXCEPT ![m] = ThenExecuted(@, frame[m].obj, ExecuteResult)]
          /\ pc' = [pc EXCEPT ![m] = "Done"]
  /\ UNCHANGED <<instances, _commands, disposed, session, frame, unawaited, tok>>

\* A continuation that runs only once every earlier message is done with.
SendResolvedInTurn(m, ok) ==
  /\ pc[m] = "Send"
  /\ \A k \in DOMAIN pc : k < m => pc[k] = "Done"
  /\ trace' = [trace EXCEPT ![m] =
       IF ok THEN ThenExecuted(@, frame[m].obj, ExecuteResult) ELSE @]
  /\ pc' = [pc EXCEPT ![m] = IF ok THEN "Done" ELSE "Rejected"]
  /\ UNCHANGED <<instances, _commands, disposed, session, frame, unawaited, tok>>

\* execute() from the end of the awaited bot.sendMessage (bot.ts 156): sent,
\* or failed, which rejects execute()'s promise.
SendResolved(m, ok) ==
  /\ pc[m] = "Send"
  /\ trace' = [trace EXCEPT ![m] =
       IF ok THEN ThenExecuted(@, frame[m].obj, ExecuteResult) ELSE @]
  /\ pc' = [pc EXCEPT ![m] = IF ok THEN "Done" ELSE "Rejected"]
  /\ UNCHANGED <<instances, _commands, disposed, session, frame, unawaited, tok>>

\* The catch of commander.ts 105, run in a turn of its own after execute()'s
\* promise was rejected (the rejection passes the then of line 101 first):
\* the error is logged.
ExecuteRejected(m) ==
  /\ pc[m] = "Rejected"
  /\ trace' = [trace EXCEPT ![m] = Append(@, EvLog)]
  /\ pc' = [pc EXCEPT ![m] = "Done"]
  /\ UNCHANGED <<instances, _commands, disposed, session, frame, unawaited, tok>>

\* The promise of the bot.sendMessage call whose result is dropped settles:
\* the call of bot.ts 133 is neither awaited nor returned, so a rejection
\* does not reject execute() and never reaches the catch of commander.ts 105;
\* the calls of commander.ts 97 and 120 are not awaited either.
SendSettled(m, ok) ==
  /\ unawaited[m] = "pending"
  /\ unawaited' = [unawaited EXCEPT ![m] = IF ok THEN "none" ELSE "rejected"]
  /\ UNCHANGED <<instances, _commands, disposed, pc, session, frame, trace, tok>>

(***************************************************************************)
(* Specification: registrations and disposals over several contexts, and   *)
(* the dispatch of inbound messages                                        *)
(***************************************************************************)

Next ==
  \/ \E c \in Contexts, sig \in Signatures, callback \in BOOLEAN :
       Len(instances) < MaxCmds /\ command(c, sig, callback)
  \/ \E id \in 1..Len(instances) : actionCalled(id)
  \/ \E c \in Contexts : dispose(c)
  \/ \E m \in DOMAIN pc, content \in Contents, ch \in Channels :
       setupCommandParser(m, content, ch)
  \/ \E m \in DOMAIN pc, response \in BeforeParseResponses : BeforeParseResolved(m, response)
  \/ \E m \in DOMAIN pc, result \in BeforeExecuteResults : BeforeExecuteResolved(m, result)
  \/ \E m \in DOMAIN pc, outcome \in HandlerOutcomes : HandlerResolved(m, outcome)
  \/ \E m \in DOMAIN pc, ok \in BOOLEAN : SendResolved(m, ok)
  \/ \E m \in DOMAIN pc : ExecuteRejected(m)
  \/ \E m \in DOMAIN pc, ok \in BOOLEAN : SendSettled(m, ok)

Spec == Init /\ [][Next]_vars

(***************************************************************************)
(* Specification: the dispatch of inbound messages against a registry of   *)
(* at most MaxRegs commands, registered under either context with or       *)
(* without a callback, and disposals                                       *)
(***************************************************************************)

\* The number of calls of ctx.command().
MaxRegs == 1

DispatchNext ==
  \/ \E c \in Contexts, sig \in Signatures, callback \in BOOLEAN :
       Len(instances) < MaxRegs /\ command(c, sig, callback)
  \/ \E id \in 1..Len(instances) : actionCalled(id)
  \/ \E c \in Contexts : dispose(c)
  \/ \E m \in DOMAIN pc, content \in Contents, ch \in Channels :
       setupCommandParser(m, content, ch)
  \/ \E m \in DOMAIN pc, response \in BeforeParseResponses : BeforeParseResolved(m, response)
  \/ \E m \in DOMAIN pc, result \in BeforeExecuteResults : BeforeExecuteResolved(m, result)
  \/ \E m \in DOMAIN pc, outcome \in HandlerOutcomes : HandlerResolved(m, outcome)
  \/ \E m \in DOMAIN pc, ok \in BOOLEAN : SendResolved(m, ok)
  \/ \E m \in DOMAIN pc : ExecuteRejected(m)
  \/ \E m \in DOMAIN pc, ok \in BOOLEAN : SendSettled(m, ok)

SpecDispatch == Init /\ [][DispatchNext]_vars

(***************************************************************************)
(* Specification: one command, registered under the context that accepts   *)
(* every session, with or without a callback, and messages that spell out  *)
(* the argument text execute() parses. ctx.bail resolves to undefined or   *)
(* to a replacement input, ctx.serial to undefined.                        *)
(***************************************************************************)

\* "g <n>", "h", "g <a> [b]", "g <a> <b> [c]", "g [c] <a>", "g <_>",
\* "g <__proto__>"
ExecSignatures ==
  { <<"g", " ", "<", "n", ">">>,
    <<"g", " ", "<", "_", ">">>,
    <<"g", " ", "<", "_", "_", "p", "r", "o", "t", "o", "_", "_", ">">>,
    <<"h">>,
    <<"g", " ", "<", "a", ">", " ", "[", "b", "]">>,
    <<"g", " ", "<", "a", ">", " ", "<", "b", ">", " ", "[", "c", "]">>,
    <<"g", " ", "[", "c", "]", " ", "<", "a", ">">> }

\* "!g", "!g x", "!g g", "!g x y", "!g 1 2 3", "!g 1 2 3 4", "!g g x",
\* "!g x g", "!g g g", "!g -f x", "!g -F x", "!g "x y" z", "!g x\ y", "!h", "!h x", "!"
ExecContents ==
  { <<"!", "g">>,
    <<"!", "g", " ", "x">>,
    <<"!", "g", " ", "g">>,
    <<"!", "g", " ", "x", " ", "y">>,
    <<"!", "g", " ", "1", " ", "2", " ", "3">>,
    <<"!", "g", " ", "1", " ", "2", " ", "3", " ", "4">>,
    <<"!", "g", " ", "g", " ", "x">>,
    <<"!", "g", " ", "x", " ", "g">>,
    <<"!", "g", " ", "g", " ", "g">>,
    <<"!", "g", " ", "-", "f", " ", "x">>,
    <<"!", "g", " ", "-", "F", " ", "x">>,
    <<"!", "g", " ", "\"", "x", " ", "y", "\"", " ", "z">>,
    <<"!", "g", " ", "x", "\\", " ", "y">>,
    <<"!", "h">>,
    <<"!", "h", " ", "x">>,
    <<"!">> }

ExecNext ==
  \/ \E sig \in ExecSignatures, callback \in BOOLEAN :
       instances = <<>> /\ command("all", sig, callback)
  \/ \E id \in 1..Len(instances) : actionCalled(id)
  \/ \E m \in DOMAIN pc, content \in ExecContents : setupCommandParser(m, content, "ch1")
  \/ \E m \in DOMAIN pc, response \in BeforeParseOverrides :
       BeforeParseResolved(m, response)
  \/ \E m \in DOMAIN pc : BeforeExecuteResolved(m, Undefined)
  \/ \E m \in DOMAIN pc, outcome \in HandlerOutcomes : HandlerResolved(m, outcome)
  \/ \E m \in DOMAIN pc, ok \in BOOLEAN : SendResolved(m, ok)
  \/ \E m \in DOMAIN pc : ExecuteRejected(m)
  \/ \E m \in DOMAIN pc, ok \in BOOLEAN : SendSettled(m, ok)

SpecExec == Init /\ [][ExecNext]_vars

(***************************************************************************)
(* Specification: two messages in flight, the handler of the first never   *)
(* completing. Every call of the middleware is a task of its own on the    *)
(* event loop: what the second message awaits (its hooks, its handler, its *)
(* send) settles, and the event loop then runs its continuation, whatever  *)
(* the first message is waiting for.                                       *)
(***************************************************************************)

FairMsgs == {1, 2}

FairInit ==
  /\ instances = <<>>
  /\ _commands = <<>>
  /\ disposed = {}
  /\ pc = [m \in FairMsgs |-> "Idle"]
  /\ session = [m \in FairMsgs |-> [content |-> <<>>, channelId |-> "ch1"]]
  /\ frame = [m \in FairMsgs |-> NoFrame]
  /\ trace = [m \in FairMsgs |-> <<>>]
  /\ unawaited = [m \in FairMsgs |-> "none"]
  /\ tok = NoCall

FairNext ==
  \/ \E sig \in Signatures, callback \in BOOLEAN :
       instances = <<>> /\ command("all", sig, callback)
  \/ \E id \in 1..Len(instances) : actionCalled(id)
  \/ \E m \in DOMAIN pc, content \in Contents : setupCommandParser(m, content, "ch1")
  \/ \E m \in DOMAIN pc, response \in BeforeParseResponses : BeforeParseResolved(m, response)
  \/ \E m \in DOMAIN pc, result \in BeforeExecuteResults : BeforeExecuteResolved(m, result)
  \/ \E outcome \in HandlerOutcomes : HandlerResolved(2, outcome)
  \/ \E m \in DOMAIN pc, ok \in BOOLEAN : SendResolved(m, ok)
  \/ \E m \in DOMAIN pc : ExecuteRejected(m)
  \/ \E m \in DOMAIN pc, ok \in BOOLEAN : SendSettled(m, ok)

SpecFair ==
  /\ FairInit
  /\ [][FairNext]_vars
  /\ WF_vars(\E response \in BeforeParseResponses : BeforeParseResolved(2, response))
  /\ WF_vars(\E result \in BeforeExecuteResults : BeforeExecuteResolved(2, result))
  /\ WF_vars(\E outcome \in HandlerOutcomes : HandlerResolved(2, outcome))
  /\ WF_vars(\E ok \in BOOLEAN : SendResolved(2, ok))
  /\ WF_vars(ExecuteRejected(2))

(***************************************************************************)
(* Specification: parseArgsStringToArgv called on every string of at most  *)
(* MaxLen characters out of letters, the space, the double quote and the   *)
(* backslash                                                               *)
(***************************************************************************)

\* The longest argument of parseArgsStringToArgv.
MaxLen == 5

TokAlphabet == {"a", "b", " ", "\"", "\\"}

Values == UNION {[1..n -> TokAlphabet] : n \in 0..MaxLen}

TokInit ==
  /\ instances = <<>>
  /\ _commands = <<>>
  /\ disposed = {}
  /\ pc = [m \in Msgs |-> "Idle"]
  /\ session = [m \in Msgs |-> [content |-> <<>>, channelId |-> "ch1"]]
  /\ frame = [m \in Msgs |-> NoFrame]
  /\ trace = [m \in Msgs |-> <<>>]
  /\ unawaited = [m \in Msgs |-> "none"]
  /\ \E value \in Values : tok = [NoCall EXCEPT !.value = value]

\* The call of parseArgsStringToArgv(tok.value) returns.
Tokenize ==
  /\ ~tok.returned
  /\ tok' = [tok EXCEPT !.args = parseArgsStringToArgv(tok.value), !.returned = TRUE]
  /\ UNCHANGED <<instances, _commands, disposed, pc, session, frame, trace, unawaited>>

TokNext == Tokenize

SpecTok == TokInit /\ [][TokNext]_vars

(***************************************************************************)
(* Properties                                                              *)
(***************************************************************************)

\* The text of sig before its first space, all of sig when it has none.
HeadToken(sig) ==
  IF \E k \in 1..Len(sig) : sig[k] = " "
    THEN SubSeq(sig, 1,
           (CHOOSE k \in 1..Len(sig) : sig[k] = " " /\ \A j \in 1..(k - 1) : sig[j] # " ") - 1)
    ELSE sig

\* The words of s: its maximal stretches without a space, in order.
RECURSIVE Words(_)
Words(s) ==
  IF Len(s) = 0 THEN <<>>
  ELSE IF s[1] = " " THEN Words(Tail(s))
  ELSE LET h == HeadToken(s)
       IN  <<h>> \o Words(SubSeq(s, Len(h) + 1, Len(s)))

\* The names of the placeholders open...close after the head of sig, in the
\* order declared, without their brackets.
Placeholders(sig, open, close) ==
  LET ws == SelectSeq(Tail(Words(sig)),
                      LAMBDA w : Len(w) >= 3 /\ w[1] = open /\ w[Len(w)] = close)
  IN  [k \in 1..Len(ws) |-> SubSeq(ws[k], 2, Len(ws[k]) - 1)]

RequiredNames(sig) == Placeholders(sig, "<", ">")
OptionalNames(sig) == Placeholders(sig, "[", "]")

HasPrefix(content) ==
  Len(content) >= Len(prefix) /\ SubSeq(content, 1, Len(prefix)) = prefix

Unprefixed(content) == SubSeq(content, Len(prefix) + 1, Len(content))

Events(m, e) == SelectSeq(trace[m], LAMBDA x : x.ev = e)

\* The instances registered under a context whose filter accepts m's session.
Visible(m) ==
  {id \in 1..Len(instances) :
     \E k \in 1..Len(_commands) :
       /\ filter(_commands[k].context, session[m])
       /\ \E j \in 1..Len(_commands[k].list) : _commands[k].list[j] = id}

Least(S) == CHOOSE x \in S : \A y \in S : x <= y

\* A step in which m's middleware goes on after ctx.bail without being
\* cancelled.
Proceeded(m) ==
  pc[m] = "BeforeParse" /\ pc'[m] # "BeforeParse" /\ trace'[m] # trace[m]

\* Once a message's processing is over nothing more happens for it.
DoneIsFinal(m) == pc[m] = "Done" => pc'[m] = "Done" /\ trace'[m] = trace[m]

\* sig is "<head> <p>": a head, a space and one required placeholder.
OneRequired(sig) ==
  LET h == HeadToken(sig)
  IN  /\ Len(h) > 0
      /\ Len(sig) >= Len(h) + 4
      /\ sig[Len(h) + 1] = " " /\ sig[Len(h) + 2] = "<" /\ sig[Len(sig)] = ">"
      /\ \A k \in (Len(h) + 3)..(Len(sig) - 1) : sig[k] \notin {" ", "<", ">", "[", "]"}

\* content is prefix + head + " " + tok for a single token tok.
Invokes(content, sig) ==
  LET lead == prefix \o HeadToken(sig) \o <<" ">>
  IN  /\ Len(content) > Len(lead)
      /\ SubSeq(content, 1, Len(lead)) = lead
      /\ \A k \in (Len(lead) + 1)..Len(content) : content[k] \notin {" ", "\"", "\\"}

TokOf(content, sig) ==
  SubSeq(content, Len(prefix) + Len(HeadToken(sig)) + 2, Len(content))

\* id is registered as "<head> <p>" with a callback, is visible to m and is
\* the only visible command with its head, and m's content addresses it.
Addresses(m, id) ==
  /\ id \in Visible(m)
  /\ OneRequired(instances[id].declared)
  /\ instances[id].commandFunction
  /\ Invokes(session[m].content, instances[id].declared)
  /\ \A other \in Visible(m) \ {id} :
       HeadToken(instances[other].declared) # HeadToken(instances[id].declared)

\* C1, as claimed: with no hook interfering, a message prefix + head + " " +
\* tok for a command registered as "<head> <p>" is matched to that command,
\* its handler is invoked with p bound to tok, and the non-empty string the
\* handler returns is sent to the session's channel.
C1AsClaimed ==
  [][\A m \in DOMAIN pc :
       /\ \A id \in 1..Len(instances) :
            BeforeParseResolved(m, Undefined) /\ Addresses(m, id)
              => pc'[m] = "BeforeExecute" /\ frame'[m].obj = id
       /\ (/\ BeforeExecuteResolved(m, Undefined)
           /\ frame[m].input = Unprefixed(session[m].content)
           /\ Invokes(session[m].content, instances[frame[m].obj].declared)
           /\ OneRequired(instances[frame[m].obj].declared)
           /\ instances[frame[m].obj].commandFunction)
            => LET sig == instances[frame[m].obj].declared
                   e == trace'[m][Len(trace'[m])]
               IN  /\ Len(trace'[m]) = Len(trace[m]) + 1
                   /\ e.ev = "commandFunction"
                   /\ RequiredNames(sig)[1] \in DOMAIN e.argv
                   /\ e.argv[RequiredNames(sig)[1]]
                        = StringValue(TokOf(session[m].content, sig))
       /\ HandlerResolved(m, <<"o", "k">>)
            => trace'[m] = Append(trace[m], EvSend(session[m].channelId, <<"o", "k">>, 0, FALSE))
       /\ DoneIsFinal(m)]_vars

\* C2, as claimed: dispatch selects the earliest-registered visible command
\* whose name equals the head (no instance has aliases).
C2AsClaimed ==
  [][\A m \in DOMAIN pc :
       Proceeded(m) =>
         LET head == HeadToken(frame'[m].input)
             cands == {id \in Visible(m) : instances[id].name = head}
         IN  cands # {} => pc'[m] = "BeforeExecute" /\ frame'[m].obj = Least(cands)]_vars

\* C3, as claimed: every instance's name is the head token of the signature
\* it was registered with, also when the signature has no space.
C3AsClaimed ==
  \A id \in 1..Len(instances) : instances[id].name = HeadToken(instances[id].declared)

\* C4, as claimed: when execute() completed without error after the handler's
\* reply was sent, 'command/execute' was emitted for that command.
C4AsClaimed ==
  \A m \in DOMAIN pc :
    (/\ pc[m] = "Done"
     /\ Events(m, "logger.error") = <<>>
     /\ \E i \in 1..(Len(trace[m]) - 1) :
          trace[m][i].ev = "commandFunction" /\ trace[m][i + 1].ev = "sendMessage")
      => Events(m, "parallel") = <<EvParallel(frame[m].obj)>>

\* execute() ran for m: a command was matched and 'command/before-execute'
\* did not replace the execution.
Executed(m) ==
  /\ pc[m] \in {"Handler", "Send", "Done"}
  /\ frame[m].obj # 0
  /\ \A i \in 1..Len(trace[m]) :
       trace[m][i].ev = "sendMessage" /\ trace[m][i].quote = m
         => trace[m][i].content = MissingParameter

\* The positional tokens execute() works on for m.
PositionalsOf(m) == Positionals(instances[frame[m].obj], args(frame[m].input))

\* C5: when execute() has fewer positional tokens than the signature has
\* required parameters, the one message sent is the missing-parameter reply,
\* quoting the triggering message, and the handler is not invoked (so that
\* nothing is bound for it); the processing is over.
C5Theorem ==
  \A m \in DOMAIN pc :
    (/\ Executed(m)
     /\ Len(PositionalsOf(m)) < Len(RequiredNames(instances[frame[m].obj].declared)))
      => /\ Events(m, "sendMessage")
              = <<EvSend(session[m].channelId, MissingParameter, m, FALSE)>>
         /\ Events(m, "commandFunction") = <<>>
         /\ pc[m] = "Done"

C5Witness ==
  \E m \in DOMAIN pc :
    /\ Executed(m)
    /\ Len(PositionalsOf(m)) < Len(RequiredNames(instances[frame[m].obj].declared))
    /\ Events(m, "sendMessage") = <<EvSend(session[m].channelId, MissingParameter, m, FALSE)>>

\* C6, as claimed: the argument object the handler is invoked with holds the
\* k-th required name with the k-th positional token as value, the k-th
\* optional name with the token at k + the number of required names when
\* there is one, and no optional name beyond the tokens supplied; the names
\* are those declared, in order, without brackets.
C6AsClaimed ==
  \A m \in DOMAIN pc : \A i \in 1..Len(trace[m]) :
    trace[m][i].ev = "commandFunction" =>
      LET sig == instances[trace[m][i].obj].declared
          req == RequiredNames(sig)
          opt == OptionalNames(sig)
          pos == PositionalsOf(m)
          argv == trace[m][i].argv
      IN  /\ Len(req) <= Len(pos)
          /\ \A k \in 1..Len(req) :
               req[k] \in DOMAIN argv /\ argv[req[k]] = StringValue(pos[k])
          /\ \A k \in 1..Len(opt) :
               IF k + Len(req) <= Len(pos)
                 THEN opt[k] \in DOMAIN argv
                        /\ argv[opt[k]] = StringValue(pos[k + Len(req)])
                 ELSE opt[k] \notin DOMAIN argv

\* C7: the middleware calls next exactly when the content does not start with
\* the prefix; then next is all it does; a prefixed message never reaches
\* next, whatever becomes of it.
C7Theorem ==
  \A m \in DOMAIN pc :
    pc[m] # "Idle" =>
      IF HasPrefix(session[m].content)
        THEN Events(m, "next") = <<>>
        ELSE trace[m] = <<EvNext>> /\ pc[m] = "Done"

C7Witness ==
  \E m \in DOMAIN pc :
    pc[m] = "Done" /\ ~HasPrefix(session[m].content) /\ trace[m] = <<EvNext>>

\* C8: when ctx.bail resolves to false the dispatch ends with no effect: no
\* match, no hook, no handler, no message, then or later.
C8Theorem ==
  [][\A m \in DOMAIN pc :
       /\ BeforeParseResolved(m, False)
            => pc'[m] = "Done" /\ trace'[m] = trace[m] /\ frame'[m] = frame[m]
       /\ DoneIsFinal(m)]_vars

\* A prefixed message whose processing ended after ctx.bail alone, while a
\* visible command bears its head as name.
C8Witness ==
  \E m \in DOMAIN pc :
    /\ pc[m] = "Done"
    /\ HasPrefix(session[m].content)
    /\ trace[m] = <<EvBail(Unprefixed(session[m].content))>>
    /\ \E id \in Visible(m) :
         instances[id].name = HeadToken(Unprefixed(session[m].content))

\* C9: when ctx.serial resolves to a string for the matched command, that
\* string is sent quoting the triggering message and the processing is over:
\* no handler, no 'command/execute', then or later.
C9Theorem ==
  [][\A m \in DOMAIN pc :
       /\ \A result \in BeforeExecuteResults \ {Undefined} :
            BeforeExecuteResolved(m, result)
              => /\ trace'[m] = Append(trace[m],
                                  EvSend(session[m].channelId, result, m, FALSE))
                 /\ pc'[m] = "Done"
       /\ DoneIsFinal(m)]_vars

C9Witness ==
  \E m \in DOMAIN pc :
    /\ pc[m] = "Done"
    /\ Len(trace[m]) = 3
    /\ trace[m][2].ev = "serial"
    /\ trace[m][3] = EvSend(session[m].channelId, <<"n", "o">>, m, FALSE)

\* C10, as claimed: when the middleware goes on to match, it sends the
\* no-match reply or a card exactly when no visible command has the head as
\* name, and then that is the one message and no handler runs.
C10AsClaimed ==
  [][\A m \in DOMAIN pc :
       Proceeded(m) =>
         LET head == HeadToken(frame'[m].input)
             unmatched == \A id \in Visible(m) : instances[id].name # head
             said == /\ Len(trace'[m]) = Len(trace[m]) + 1
                     /\ trace'[m][Len(trace'[m])].ev = "sendMessage"
                     /\ \/ trace'[m][Len(trace'[m])].content = NoMatchingCommand
                        \/ trace'[m][Len(trace'[m])].card
         IN  /\ unmatched <=> said
             /\ unmatched => pc'[m] = "Done"]_vars

\* C11, as claimed: no failure raised while a matched command executes goes
\* uncaught: none of the messages sent inside execute() ends as a rejection
\* that nothing handles.
C11AsClaimed ==
  \A m \in DOMAIN pc : Executed(m) => unawaited[m] # "rejected"

\* The place of an event among the stages of a dispatch: the pre-parse hook,
\* the match (which ends in the call of the before-execute hook), the
\* handler, the execute notification; 0 for any other event.
Stage(e) ==
  IF e.ev = "bail" THEN 1
  ELSE IF e.ev = "serial" THEN 2
  ELSE IF e.ev = "commandFunction" THEN 3
  ELSE IF e.ev = "parallel" THEN 4
  ELSE 0

\* C12: for one message the pre-parse hook, the match with the before-execute
\* hook, the handler and the execute notification happen at most once each
\* and in that order, each one only after all the earlier ones; while a hook
\* or the handler has not completed, no later stage has happened.
C12Theorem ==
  \A m \in DOMAIN pc :
    /\ \A j \in 1..Len(trace[m]) :
         Stage(trace[m][j]) # 0 =>
           /\ \A i \in 1..(j - 1) : Stage(trace[m][i]) < Stage(trace[m][j])
           /\ \A r \in 1..(Stage(trace[m][j]) - 1) :
                \E i \in 1..(j - 1) : Stage(trace[m][i]) = r
    /\ pc[m] = "BeforeParse" => \A j \in 1..Len(trace[m]) : Stage(trace[m][j]) <= 1
    /\ pc[m] = "BeforeExecute" => \A j \in 1..Len(trace[m]) : Stage(trace[m][j]) <= 2
    /\ pc[m] = "Handler" => \A j \in 1..Len(trace[m]) : Stage(trace[m][j]) <= 3

\* A dispatch that went through the pre-parse hook, the match, the
\* before-execute hook and the handler, and is over.
C12Witness ==
  \E m \in DOMAIN pc :
    /\ pc[m] = "Done"
    /\ Len(trace[m]) >= 3
    /\ Stage(trace[m][1]) = 1 /\ Stage(trace[m][2]) = 2 /\ Stage(trace[m][3]) = 3

\* C13, as claimed: whatever was registered and disposed, no context's list
\* in _commands holds two commands with the same name.
C13AsClaimed ==
  \A k \in 1..Len(_commands) :
    \A i, j \in 1..Len(_commands[k].list) :
      i # j => instances[_commands[k].list[i]].name # instances[_commands[k].list[j]].name

\* Whether the instance id is on some context's list in map.
InRegistry(map, id) ==
  \E k \in 1..Len(map) : \E j \in 1..Len(map[k].list) : map[k].list[j] = id

\* The entries of map under the contexts other than c, in their order.
RECURSIVE Others(_, _)
Others(map, c) ==
  IF Len(map) = 0 THEN <<>>
  ELSE (IF map[1].context = c THEN <<>> ELSE <<map[1]>>) \o Others(Tail(map), c)

\* C14, as claimed: the disposal of a context removes its key with every
\* command filed under it and leaves the entries of the other contexts as
\* they were; a removed command never comes back, a match is taken among
\* the commands in the registry at that moment, never one filed under a
\* disposed context, and no card suggests a command: no dispatch after the
\* disposal matches or suggests a command of the disposed context.
C14AsClaimed ==
  [][/\ \A c \in Contexts :
          dispose(c) =>
            /\ _commands' = Others(_commands, c)
            /\ \A k \in 1..Len(_commands') : _commands'[k].context # c
            /\ \A k \in 1..Len(_commands) :
                 _commands[k].context = c =>
                   \A j \in 1..Len(_commands[k].list) :
                     ~InRegistry(_commands', _commands[k].list[j])
     /\ \A id \in 1..Len(instances) :
          ~InRegistry(_commands, id) => ~InRegistry(_commands', id)
     /\ \A m \in DOMAIN pc :
          /\ (Proceeded(m) /\ pc'[m] = "BeforeExecute")
               => /\ frame'[m].obj \in Visible(m)
                  /\ \A k \in 1..Len(_commands) :
                       InRegistry(<<_commands[k]>>, frame'[m].obj)
                         => _commands[k].context \notin disposed
          /\ \A i \in 1..Len(trace'[m]) :
               trace'[m][i].ev = "sendMessage" => ~trace'[m][i].card]_vars

\* The bot.sendMessage calls among the events t.
Sends(t) == SelectSeq(t, LAMBDA x : x.ev = "sendMessage")

\* The commandFunction calls among the events t.
Calls(t) == SelectSeq(t, LAMBDA x : x.ev = "commandFunction")

\* C15: a call of execute() sends at most one message, the missing-parameter
\* reply or the handler's result and never both, and invokes the handler at
\* most once; the missing-parameter reply goes with no invocation; when the
\* handler returns nothing or the empty string nothing is sent.
C15Theorem ==
  [][\A m \in DOMAIN pc :
       /\ Executed(m)' =>
            /\ Len(Sends(trace'[m])) <= 1
            /\ Len(Calls(trace'[m])) <= 1
            /\ \A i \in 1..Len(trace'[m]) :
                 (trace'[m][i].ev = "sendMessage" /\ trace'[m][i].content = MissingParameter)
                   => Calls(trace'[m]) = <<>>
       /\ \A outcome \in {Undefined, <<>>} :
            HandlerResolved(m, outcome)
              => Sends(trace'[m]) = <<>> /\ pc'[m] = "Done"
       /\ DoneIsFinal(m)]_vars

\* An execute() that invoked the handler once and was over without a message.
C15Witness ==
  \E m \in DOMAIN pc :
    /\ Executed(m)
    /\ pc[m] = "Done"
    /\ Len(Calls(trace[m])) = 1
    /\ Sends(trace[m]) = <<>>
    /\ Events(m, "logger.error") = <<>>

\* What each character of value is, reading from position i: "esc" a
\* backslash that escapes the next character, "quote" a double quote that is
\* not escaped, "sep" a space that is neither quoted nor escaped, "char"
\* anything else.
RECURSIVE Roles(_, _, _, _)
Roles(value, i, quoted, escaped) ==
  IF i > Len(value) THEN <<>>
  ELSE IF escaped THEN <<"char">> \o Roles(value, i + 1, quoted, FALSE)
  ELSE IF value[i] = "\\" THEN <<"esc">> \o Roles(value, i + 1, quoted, TRUE)
  ELSE IF value[i] = "\"" THEN <<"quote">> \o Roles(value, i + 1, ~quoted, FALSE)
  ELSE IF value[i] = " " /\ ~quoted THEN <<"sep">> \o Roles(value, i + 1, quoted, FALSE)
  ELSE <<"char">> \o Roles(value, i + 1, quoted, FALSE)

RolesOf(value) == Roles(value, 1, FALSE, FALSE)

BalancedQuotes(value) ==
  Cardinality({i \in 1..Len(value) : RolesOf(value)[i] = "quote"}) % 2 = 0

NoTrailingEscape(value) == Len(value) = 0 \/ RolesOf(value)[Len(value)] # "esc"

\* The pieces between the separators of value from position i on, each as
\* the text of its "char" characters; cur is the text of the piece under way
\* and open whether there is one.
RECURSIVE SplitFrom(_, _, _, _, _)
SplitFrom(value, roles, i, cur, open) ==
  IF i > Len(value) THEN (IF open THEN <<cur>> ELSE <<>>)
  ELSE IF roles[i] = "sep"
    THEN (IF open THEN <<cur>> ELSE <<>>) \o SplitFrom(value, roles, i + 1, <<>>, FALSE)
  ELSE SplitFrom(value, roles, i + 1,
                 IF roles[i] = "char" THEN Append(cur, value[i]) ELSE cur, TRUE)

Pieces(value) == SplitFrom(value, RolesOf(value), 1, <<>>, FALSE)

\* C16, as claimed: for a string with balanced quotes and no trailing
\* backslash the tokens are the pieces of the split on unquoted, unescaped
\* spaces, one token for each piece, without the quote characters.
C16AsClaimed ==
  (tok.returned /\ BalancedQuotes(tok.value) /\ NoTrailingEscape(tok.value))
    => tok.args = Pieces(tok.value)

\* C17: with two messages in flight and the handler of the first one never
\* completing, the second message, once received, is dispatched to the end:
\* its processing eventually reaches Done.
C17Theorem == (pc[2] # "Idle") ~> (pc[2] = "Done")

\* The first message waits for its handler while the second one was matched,
\* had its handler run and its reply sent, and is over.
C17Witness ==
  /\ pc[1] = "Handler"
  /\ pc[2] = "Done"
  /\ Len(Calls(trace[2])) = 1
  /\ Len(Sends(trace[2])) = 1
  /\ Events(2, "logger.error") = <<>>

\* C18, as claimed: whenever the handler is invoked, every required name the
\* signature declares is a property of the argument object, and its value is
\* one of the positional tokens.
C18AsClaimed ==
  \A m \in DOMAIN pc : \A i \in 1..Len(trace[m]) :
    trace[m][i].ev = "commandFunction" =>
      LET req == RequiredNames(instances[trace[m][i].obj].declared)
          argv == trace[m][i].argv
          pos == PositionalsOf(m)
      IN  \A k \in 1..Len(req) :
            /\ req[k] \in DOMAIN argv
            /\ \E j \in 1..Len(pos) : argv[req[k]] = StringValue(pos[j])

\* text has no quote, no backslash and no dash: its tokens are its words and
\* none of them is a flag.
Plain(text) == \A k \in 1..Len(text) : text[k] \notin {"\"", "\\", "-"}

\* toks without its first element equal to name, all of toks when it has none.
RECURSIVE WithoutFirst(_, _)
WithoutFirst(toks, name) ==
  IF Len(toks) = 0 THEN <<>>
  ELSE IF toks[1] = name THEN Tail(toks)
  ELSE <<toks[1]>> \o WithoutFirst(Tail(toks), name)

\* C19: execute() works on the tokens of the argument text without the first
\* one equal to the command's name, wherever it stands, the others staying:
\* when fewer are left than there are required names the missing-parameter
\* reply is sent and no handler is invoked, otherwise the handler is invoked
\* and gets them as the positionals (the property '_' of its argument, where
\* no declared parameter bears that name).
C19Theorem ==
  [][\A m \in DOMAIN pc :
       (BeforeExecuteResolved(m, Undefined) /\ Plain(args(frame[m].input))) =>
         LET obj == instances[frame[m].obj]
             req == RequiredNames(obj.declared)
             names == RequiredNames(obj.declared) \o OptionalNames(obj.declared)
             left == WithoutFirst(Words(args(frame[m].input)), obj.name)
             last == trace'[m][Len(trace'[m])]
         IN  IF Len(left) < Len(req)
               THEN /\ trace'[m] = Append(trace[m],
                         EvSend(session[m].channelId, MissingParameter, m, FALSE))
                    /\ pc'[m] = "Done"
               ELSE obj.commandFunction =>
                      /\ Len(trace'[m]) = Len(trace[m]) + 1
                      /\ last.ev = "commandFunction"
                      /\ last.obj = frame[m].obj
                      /\ (\A k \in 1..Len(names) : names[k] # <<"_">>)
                           => last.argv[<<"_">>] = ArrayValue(left)]_vars

\* The command "g <n>" called with the argument text "g" alone: the
\* missing-parameter reply was sent and the handler not invoked.
C19Witness ==
  \E m \in DOMAIN pc :
    /\ pc[m] = "Done"
    /\ frame[m].obj # 0
    /\ instances[frame[m].obj].declared = <<"g", " ", "<", "n", ">">>
    /\ frame[m].input = <<"g", " ", "g">>
    /\ Sends(trace[m]) = <<EvSend(session[m].channelId, MissingParameter, m, FALSE)>>
    /\ Calls(trace[m]) = <<>>

\* C20: the match is taken once and not looked at again: a disposal leaves
\* every dispatch under way as it is, the matched command stays the same
\* until the dispatch is over, and when ctx.serial resolves with nothing for
\* a command that is no longer in the registry, its context disposed since
\* the match, the handler is invoked all the same.
C20Theorem ==
  [][/\ \A c \in Contexts :
          dispose(c) => pc' = pc /\ frame' = frame /\ trace' = trace
     /\ \A m \in DOMAIN pc :
          /\ pc[m] \in {"BeforeExecute", "Handler", "Send"} => frame'[m] = frame[m]
          /\ (/\ BeforeExecuteResolved(m, Undefined)
              /\ ~InRegistry(_commands, frame[m].obj)
              /\ instances[frame[m].obj].commandFunction
              /\ Len(PositionalsOf(m))
                   >= Len(RequiredNames(instances[frame[m].obj].declared)))
               => /\ pc'[m] = "Handler"
                  /\ Len(trace'[m]) = Len(trace[m]) + 1
                  /\ trace'[m][Len(trace'[m])].ev = "commandFunction"
                  /\ trace'[m][Len(trace'[m])].obj = frame[m].obj]_vars

\* A dispatch waits on 'command/before-execute' for a command with a handler
\* and enough arguments which is no longer in the registry: its context was
\* disposed after the match.
C20Witness ==
  \E m \in DOMAIN pc :
    /\ pc[m] = "BeforeExecute"
    /\ ~InRegistry(_commands, frame[m].obj)
    /\ disposed # {}
    /\ instances[frame[m].obj].commandFunction
    /\ Len(PositionalsOf(m)) >= Len(RequiredNames(instances[frame[m].obj].declared))

====
